---------------------------- MODULE Spec2Model ----------------------------
(* A model of the todo-chat edge function                                  *)
(* (supabase/functions/todo-chat/index.ts): the tool executor over the     *)
(* todos table, the tool-calling orchestration loop of the request         *)
(* handler and the event stream it answers with; and of the consumer of    *)
(* that stream in the chat page (src/pages/Chat.tsx, send), with the       *)
(* outcomes of a send and the rows it stores; and of two toggles of a      *)
(* task under way at once (index.ts, src/components/TodoPanel.tsx).        *)
(*                                                                         *)
(* Texts.  A string is modelled as the sequence of its pieces: a title is  *)
(* the sequence of its characters, and a template literal is the           *)
(* concatenation of its fixed fragments (one token each) and the           *)
(* interpolated values.                                                    *)
EXTENDS Integers, Sequences, FiniteSets, TLC

VARIABLES
    todos,                 \* the rows of public.todos
    clock,                 \* the store's now(); also the source of fresh ids
    pc,                    \* position of the serve handler
    userId,                \* userId of the request body
    conversationMessages,  \* the model-facing transcript
    assistantMessage,      \* result.choices[0].message of the last response
    iterations,            \* the loop counter
    callIdx,               \* index of the tool call the for loop is at
    sent,                  \* the message lists posted to the model endpoint
    received,              \* the answers of the model endpoint, one per post
    executed,              \* the executeTool invocations of this request
    response,              \* the Response the handler returned
    faults,                \* store failures injected so far
    rich,                  \* model responses drawn from the wide menu so far
    last,                  \* the last direct executeTool invocation
    stream,                \* the response body: chunks enqueued, closed or not
    wire,                  \* text of the body not yet handed to the reader
    reads,                 \* the chunks reader.read() has returned
    cpc,                   \* position of send in its read loop
    textBuffer,            \* textBuffer of send
    assistantSoFar,        \* assistantSoFar of send
    chatMessages,          \* messages, the visible transcript
    todoRefresh,           \* todoRefresh, the refresh counter
    upserts,               \* the arguments of the upsertAssistant calls
    isLoading,             \* isLoading, which disables the input
    chatRows,              \* the rows of chat_messages, in insertion order
    toasts,                \* the titles of the notices shown, in order
    race                   \* two toggles under way at once, and where each is

serverVars == <<todos, clock, pc, userId, conversationMessages, assistantMessage,
                iterations, callIdx, sent, received, executed, response, faults,
                rich, last>>

sendVars == <<stream, wire, reads, cpc, textBuffer, assistantSoFar, chatMessages,
              todoRefresh, upserts, isLoading, chatRows, toasts>>

clientVars == <<sendVars, race>>

vars == <<serverVars, clientVars>>

-----------------------------------------------------------------------------
(* Bounds *)

MaxSteps == 2          \* direct executeTool invocations per behaviour
MaxFaults == 1         \* store failures per request
MaxRich == 1           \* responses per request drawn from the wide menu

-----------------------------------------------------------------------------
(* Values *)

\* a property that is undefined or null is a field the record does not have
Has(r, k) == k \in DOMAIN r

Null == "null"          \* the NULL of a due_at column

Users == {"u1", "u2"}

\* the userId of a request body: a signed-in user, or "" when it is missing
Callers == {"u1", ""}

Lower(c) == CASE c = "A" -> "a" [] c = "B" -> "b" [] OTHER -> c

SENTINEL == <<"_","_","c","o","m","p","l","e","t","e","d","_","_">>

Titles == { <<"a">>, <<"A","b">> }
Patterns == { <<"a">>, <<"B">>, <<"_","b">> }
DueDates == { "2026-02-15T09:00:00Z" }

\* new Date(iso).toLocaleDateString()
toLocaleDateString(d) == CASE d = "2026-02-15T09:00:00Z" -> "2/15/2026"
                           [] OTHER -> "Invalid Date"

CatalogNames == {"add_todo", "list_todos", "toggle_todo", "delete_todo", "update_todo"}
OtherNames == {"add_task", "noop"}

-----------------------------------------------------------------------------
(* The store: PostgREST queries on public.todos *)

RECURSIVE Like(_, _)
Like(p, s) ==
    IF p = <<>> THEN s = <<>>
    ELSE IF Head(p) = "%" THEN Like(Tail(p), s) \/ (s # <<>> /\ Like(p, Tail(s)))
    ELSE /\ s # <<>>
         /\ (Head(p) = "_" \/ Lower(Head(p)) = Lower(Head(s)))
         /\ Like(Tail(p), Tail(s))

\* .ilike("title", `%${x}%`)
ILikeTitle(t, x) == Like(<<"%">> \o x \o <<"%">>, t.title)

\* the lookup without its user filter
Matches_AnyUser(rows, uid, x) == { t \in rows : ILikeTitle(t, x) }

\* .eq("user_id", userId).ilike("title", ...)
Matches(rows, uid, x) == { t \in rows : t.user_id = uid /\ ILikeTitle(t, x) }

\* rows ordered by created_at descending
RECURSIVE OrderByCreatedDesc(_)
OrderByCreatedDesc(rows) ==
    IF rows = {} THEN <<>>
    ELSE LET t == CHOOSE x \in rows : \A y \in rows : y.created_at <= x.created_at
         IN  <<t>> \o OrderByCreatedDesc(rows \ {t})

\* a row inserted as already done
InsertRow_Completed(rows, now, data) ==
    rows \cup { [id |-> now, user_id |-> data.user_id, title |-> data.title,
                 completed |-> TRUE,
                 due_at |-> IF "due_at" \in DOMAIN data THEN data.due_at ELSE Null,
                 created_at |-> now, updated_at |-> now] }

\* insert: id, completed, created_at, updated_at take the column defaults
InsertRow(rows, now, data) ==
    rows \cup { [id |-> now, user_id |-> data.user_id, title |-> data.title,
                 completed |-> FALSE,
                 due_at |-> IF "due_at" \in DOMAIN data THEN data.due_at ELSE Null,
                 created_at |-> now, updated_at |-> now] }

\* a flag written as true whatever was asked
UpdateCompleted_SetTrue(rows, now, id, v) ==
    { IF t.id = id THEN [t EXCEPT !.completed = TRUE, !.updated_at = now] ELSE t : t \in rows }

\* update ... where id = id; the trigger refreshes updated_at
UpdateCompleted(rows, now, id, v) ==
    { IF t.id = id THEN [t EXCEPT !.completed = v, !.updated_at = now] ELSE t : t \in rows }

UpdateTitle(rows, now, id, v) ==
    { IF t.id = id THEN [t EXCEPT !.title = v, !.updated_at = now] ELSE t : t \in rows }

DeleteById(rows, id) == { t \in rows : t.id # id }

\* the bulk delete without its user filter
DeleteCompleted_AnyUser(rows, uid) == { t \in rows : ~t.completed }

\* delete ... where user_id = uid and completed = true
DeleteCompleted(rows, uid) == { t \in rows : ~(t.user_id = uid /\ t.completed) }


-----------------------------------------------------------------------------
(* executeTool.  Every await on the store either yields data or an error;  *)
(* limit(1) without an order yields any one of the matching rows.  The     *)
(* operator gives the set of outcomes of one invocation: the text          *)
(* returned, the rows and the clock afterwards, the store operations       *)
(* awaited and whether one of them failed.                                 *)

ErrorMessage == "store failure"

\* the non-ASCII characters of the result texts, by code point
CheckMark == "U+2713"
Arrow == "U+2192"

ErrorText == <<"Error: ", ErrorMessage>>

Quoted(x) == <<"\"">> \o x \o <<"\"">>

NoTaskFound(x) == <<"No task found matching ">> \o Quoted(x)

Outcome(text, rows, now, ops, failed) ==
    [result |-> text, todos |-> rows, clock |-> now,
     ops |-> ops, failed |-> failed]

AddTodo(args, uid, rows, now) ==
    LET insertData == IF Has(args, "due_at")
                      THEN [user_id |-> uid, title |-> args.title, due_at |-> args.due_at]
                      ELSE [user_id |-> uid, title |-> args.title]
        dueStr == IF Has(args, "due_at") THEN <<" (due: ", args.due_at, ")">> ELSE <<>>
    IN  { Outcome(ErrorText, rows, now, <<"insert">>, TRUE),
          Outcome(<<"Added task: ">> \o Quoted(args.title) \o dueStr,
                  InsertRow(rows, now, insertData), now + 1, <<"insert">>, FALSE) }

\* every line shown as not done
ListLine_Unchecked(t, i) ==
    LET due == IF t.due_at # Null
               THEN <<" [due: ", toLocaleDateString(t.due_at), "]">> ELSE <<>>
    IN  <<ToString(i), ". [", " ", "] ">> \o t.title \o due

ListLine(t, i) ==
    LET due == IF t.due_at # Null
               THEN <<" [due: ", toLocaleDateString(t.due_at), "]">> ELSE <<>>
    IN  <<ToString(i), ". [", IF t.completed THEN CheckMark ELSE " ", "] ">> \o t.title \o due

RECURSIVE JoinLines(_, _)
JoinLines(data, i) ==
    IF i > Len(data) THEN <<>>
    ELSE IF i = Len(data) THEN ListLine(data[i], i)
    ELSE ListLine(data[i], i) \o <<"\n">> \o JoinLines(data, i + 1)

ListTodos(args, uid, rows, now) ==
    LET selected == { t \in rows : t.user_id = uid
                                    /\ (Has(args, "completed") => t.completed = args.completed) }
        data == OrderByCreatedDesc(selected)
    IN  { Outcome(ErrorText, rows, now, <<"select">>, TRUE),
          Outcome(IF Len(data) = 0 THEN <<"No tasks found.">> ELSE JoinLines(data, 1),
                  rows, now, <<"select">>, FALSE) }

ToggleTodo(args, uid, rows, now) ==
    LET x == args.title
        found == Matches(rows, uid, x)
    IN  { Outcome(NoTaskFound(x), rows, now, <<"select">>, TRUE) }
        \cup (IF found = {}
              THEN { Outcome(NoTaskFound(x), rows, now, <<"select">>, FALSE) }
              ELSE UNION { { Outcome(ErrorText, rows, now, <<"select", "update">>, TRUE),
                             Outcome(<<IF todo.completed THEN "Uncompleted" ELSE "Completed", ": ">>
                                        \o Quoted(todo.title),
                                     UpdateCompleted(rows, now, todo.id, ~todo.completed),
                                     now + 1, <<"select", "update">>, FALSE) }
                           : todo \in found })

DeleteTodo(args, uid, rows, now) ==
    LET x == args.title
        found == Matches(rows, uid, x)
    IN  IF x = SENTINEL
        THEN { Outcome(ErrorText, rows, now, <<"delete">>, TRUE),
               Outcome(<<"Deleted all completed tasks.">>, DeleteCompleted(rows, uid),
                       now, <<"delete">>, FALSE) }
        ELSE { Outcome(NoTaskFound(x), rows, now, <<"select">>, TRUE) }
             \cup (IF found = {}
                   THEN { Outcome(NoTaskFound(x), rows, now, <<"select">>, FALSE) }
                   ELSE UNION { { Outcome(ErrorText, rows, now, <<"select", "delete">>, TRUE),
                                  Outcome(<<"Deleted: ">> \o Quoted(m.title),
                                          DeleteById(rows, m.id), now,
                                          <<"select", "delete">>, FALSE) }
                                : m \in found })

UpdateTodo(args, uid, rows, now) ==
    LET x == args.old_title
        new == args.new_title
        found == Matches(rows, uid, x)
    IN  { Outcome(NoTaskFound(x), rows, now, <<"select">>, TRUE) }
        \cup (IF found = {}
              THEN { Outcome(NoTaskFound(x), rows, now, <<"select">>, FALSE) }
              ELSE UNION { { Outcome(ErrorText, rows, now, <<"select", "update">>, TRUE),
                             Outcome(<<"Updated ">> \o Quoted(m.title) \o <<" ", Arrow, " ">> \o Quoted(new),
                                     UpdateTitle(rows, now, m.id, new), now + 1,
                                     <<"select", "update">>, FALSE) }
                           : m \in found })

\* the default case reading the table before it answers
UnknownTool_ReadsTable(name, rows, now) ==
    { Outcome(<<"Unknown tool: ", name>>, rows, now, <<"select">>, FALSE),
      Outcome(ErrorText, rows, now, <<"select">>, TRUE) }

UnknownTool(name, rows, now) ==
    { Outcome(<<"Unknown tool: ", name>>, rows, now, <<>>, FALSE) }

executeTool(name, args, uid, rows, now) ==
    IF name \notin CatalogNames THEN UnknownTool(name, rows, now)
    ELSE CASE name = "add_todo"    -> AddTodo(args, uid, rows, now)
           [] name = "list_todos"  -> ListTodos(args, uid, rows, now)
           [] name = "toggle_todo" -> ToggleTodo(args, uid, rows, now)
           [] name = "delete_todo" -> DeleteTodo(args, uid, rows, now)
           [] name = "update_todo" -> UpdateTodo(args, uid, rows, now)

-----------------------------------------------------------------------------
(* Direct invocations of executeTool, as the handler's for loop makes them *)

EmptyArgs == <<>>

ToolArgs(name) ==
    CASE name = "add_todo"    -> [title : Titles] \cup [title : Titles, due_at : DueDates]
      [] name = "list_todos"  -> {EmptyArgs} \cup [completed : BOOLEAN]
      [] name = "toggle_todo" -> [title : Patterns]
      [] name = "delete_todo" -> [title : Patterns \cup {SENTINEL}]
      [] name = "update_todo" -> [old_title : Patterns, new_title : Titles]
      [] OTHER                -> {EmptyArgs} \cup [title : Titles]

Task(id, uid, title, completed, due) ==
    [id |-> id, user_id |-> uid, title |-> title, completed |-> completed,
     due_at |-> due, created_at |-> id, updated_at |-> id]

\* the table before the first request: empty, or as earlier requests left it
InitialStores ==
    { {},
      { Task(1, "u1", <<"a">>, FALSE, Null),
        Task(2, "u1", <<"A","b">>, TRUE, "2026-02-15T09:00:00Z"),
        Task(3, "u2", <<"a">>, TRUE, Null) } }

\* the invocation made before the last one, as far as the properties need it
Previous(call) ==
    [name |-> call.name, args |-> call.args, userId |-> call.userId,
     before |-> call.before, failed |-> call.failed]

NoPrevious == [name |-> "", args |-> EmptyArgs, userId |-> "", before |-> {},
               failed |-> FALSE]

NoCall == [n |-> 0, name |-> "", args |-> EmptyArgs, userId |-> "", before |-> {},
           result |-> <<>>, ops |-> <<>>, failed |-> FALSE, callers |-> {},
           prev |-> NoPrevious]

InitRest ==
    /\ clock = 4
    /\ pc = "idle"
    /\ userId = ""
    /\ conversationMessages = <<>>
    /\ assistantMessage = [role |-> "assistant"]
    /\ iterations = 0
    /\ callIdx = 0
    /\ sent = <<>>
    /\ received = <<>>
    /\ executed = <<>>
    /\ response = [status |-> 0]
    /\ faults = 0
    /\ rich = 0
    /\ last = NoCall

NoStream == [chunks |-> <<>>, closed |-> FALSE]

\* no toggles under way
NoRace == [start |-> {}, procs |-> <<>>]

\* no send under way
InitClient ==
    /\ race = NoRace
    /\ stream = NoStream
    /\ wire = <<>>
    /\ reads = <<>>
    /\ cpc = "idle"
    /\ textBuffer = <<>>
    /\ assistantSoFar = <<>>
    /\ chatMessages = <<>>
    /\ todoRefresh = 0
    /\ upserts = <<>>
    /\ isLoading = FALSE
    /\ chatRows = <<>>
    /\ toasts = <<>>

Init ==
    /\ todos \in InitialStores
    /\ InitRest
    /\ InitClient

\* the handler's requests are made on the populated table
InitServe ==
    /\ todos \in { rows \in InitialStores : rows # {} }
    /\ InitRest
    /\ InitClient

Execute(name, args, uid) ==
    /\ last.n < MaxSteps
    /\ \E o \in executeTool(name, args, uid, todos, clock) :
          /\ todos' = o.todos
          /\ clock' = o.clock
          /\ last' = [n |-> last.n + 1, name |-> name, args |-> args, userId |-> uid,
                      before |-> todos, result |-> o.result, ops |-> o.ops,
                      failed |-> o.failed, callers |-> last.callers \cup {uid},
                      prev |-> Previous(last)]
    /\ UNCHANGED <<pc, userId, conversationMessages, assistantMessage, iterations,
                   callIdx, sent, received, executed, response, faults, rich>>
    /\ UNCHANGED clientVars

NextExec ==
    \E name \in CatalogNames \cup OtherNames, uid \in Users :
        \E args \in ToolArgs(name) : Execute(name, args, uid)

SpecExec == Init /\ [][NextExec]_vars

-----------------------------------------------------------------------------
(* The serve handler *)

MAX_ITERATIONS == 5

SystemPrompt == <<"You are a friendly and concise AI task manager called todo.ai.">>
AnswerText == <<"ok">>

\* the histories a client posts: user and assistant messages, the last from the user
Histories ==
    { <<[role |-> "user", content |-> <<"q">>],
        [role |-> "assistant", content |-> AnswerText],
        [role |-> "user", content |-> <<"q">>]>> }

\* allMessages: the system prompt, then role and content of each posted message
allMessages(messages) ==
    <<[role |-> "system", content |-> SystemPrompt]>>
        \o [i \in 1..Len(messages) |-> [role |-> messages[i].role,
                                        content |-> messages[i].content]]

\* toolCall.function.arguments is a JSON text: that of an object, or not JSON at all
JsonOf(v) == [json |-> "object", value |-> v]
NotJson == [json |-> "malformed"]
ParseThrows(text) == text.json = "malformed"
JSONparse(text) == text.value

ToolCall(id, name, arguments) == [id |-> id, name |-> name, arguments |-> arguments]

\* the tool calls of the wide menu
WideCalls ==
    { [name |-> "add_todo", arguments |-> JsonOf([title |-> <<"a">>])],
      [name |-> "toggle_todo", arguments |-> JsonOf([title |-> <<"a">>])],
      [name |-> "delete_todo", arguments |-> JsonOf([title |-> SENTINEL])],
      [name |-> "update_todo", arguments |-> JsonOf([old_title |-> <<"B">>, new_title |-> <<"a">>])],
      [name |-> "add_task", arguments |-> JsonOf([title |-> <<"a">>])],
      [name |-> "list_todos", arguments |-> NotJson] }

\* the responses of the wide menu that carry two calls
WidePairs ==
    { << [name |-> "toggle_todo", arguments |-> JsonOf([title |-> <<"a">>])],
         [name |-> "delete_todo", arguments |-> JsonOf([title |-> SENTINEL])] >>,
      << [name |-> "add_todo", arguments |-> JsonOf([title |-> <<"A","b">>])],
         [name |-> "toggle_todo", arguments |-> JsonOf([title |-> <<"B">>])] >> }

NarrowCalls == { [name |-> "list_todos", arguments |-> JsonOf(EmptyArgs)] }

\* tool_calls of the n-th response: the calls, with ids the model gives them
WithIds(n, calls) ==
    [i \in 1..Len(calls) |-> ToolCall(<<n, i>>, calls[i].name, calls[i].arguments)]

CallLists(wide) ==
    IF wide
    THEN {<<>>} \cup { <<c>> : c \in WideCalls }
                \cup WidePairs
    ELSE { <<c>> : c \in NarrowCalls }

\* result.choices[0].message of the n-th response
ModelMessages(n, wide) ==
    { [role |-> "assistant", tool_calls |-> WithIds(n, l)] : l \in CallLists(wide) }
    \cup (IF wide
          THEN { [role |-> "assistant", content |-> AnswerText, tool_calls |-> WithIds(n, l)]
                 : l \in CallLists(wide) }
          ELSE { [role |-> "assistant"],
                 [role |-> "assistant", content |-> <<>>],
                 [role |-> "assistant", content |-> AnswerText] })

Statuses == {200, 429, 402, 503}

\* an error body sent with the default status
JsonResponse_Ok(status, error) ==
    [status |-> 200, type |-> "application/json", body |-> [error |-> error]]

JsonResponse(status, error) ==
    [status |-> status, type |-> "application/json", body |-> [error |-> error]]

\* the two events the stream's start enqueues before it closes
StreamResponse(finalContent) ==
    [status |-> 200, type |-> "text/event-stream",
     body |-> << [data |-> "delta", content |-> finalContent],
                 [data |-> "[DONE]", content |-> <<>>] >>]

\* the content taken as it is, without the fallback
FinalContent_NoFallback(m) == IF Has(m, "content") THEN m.content ELSE <<>>

\* assistantMessage.content || "Done!"
FinalContent(m) ==
    IF Has(m, "content") /\ m.content # <<>> THEN m.content ELSE <<"Done!">>

\* the cap tested one round late
LoopCondition_OffByOne(m, n) == Has(m, "tool_calls") /\ n <= MAX_ITERATIONS

\* the while condition: assistantMessage.tool_calls && iterations < MAX_ITERATIONS
LoopCondition(m, n) == Has(m, "tool_calls") /\ n < MAX_ITERATIONS

\* From the loop test on message m: the loop body up to its first await, or
\* the end of the loop and the streamed response.
EnterLoop(m) ==
    IF LoopCondition(m, iterations)
    THEN /\ iterations' = iterations + 1
         /\ conversationMessages' = Append(conversationMessages, m)
         /\ IF Len(m.tool_calls) = 0
            THEN /\ sent' = Append(sent, conversationMessages')
                 /\ pc' = "follow"
                 /\ callIdx' = 0
            ELSE /\ sent' = sent
                 /\ pc' = "tools"
                 /\ callIdx' = 1
         /\ response' = response
    ELSE /\ response' = StreamResponse(FinalContent(m))
         /\ pc' = "done"
         /\ UNCHANGED <<iterations, conversationMessages, sent, callIdx>>

\* every failure reported alike
GatewayError_Generic(status) == JsonResponse(500, "AI gateway error")

\* the Response for a first fetch that is not ok
GatewayError(status) ==
    CASE status = 429 -> JsonResponse(429, "Rate limited")
      [] status = 402 -> JsonResponse(402, "Payment required")
      [] OTHER        -> JsonResponse(500, "AI gateway error")

\* the calls taken last first
ToolCallAt_Reversed(m, i) == m.tool_calls[Len(m.tool_calls) + 1 - i]

\* the i-th turn of for (const toolCall of assistantMessage.tool_calls)
ToolCallAt(m, i) == m.tool_calls[i]

\* every result filed under the id of the response's first call
ToolMessage_FirstId(toolCall, toolResult) ==
    [role |-> "tool", tool_call_id |-> <<toolCall.id[1], 1>>, content |-> toolResult]

\* the message pushed for a tool result
ToolMessage(toolCall, toolResult) ==
    [role |-> "tool", tool_call_id |-> toolCall.id, content |-> toolResult]

\* serve: from the request to the first fetch
Request(uid, messages) ==
    /\ pc = "idle"
    /\ IF uid = ""
       THEN /\ response' = JsonResponse(400, "userId is required")
            /\ pc' = "done"
            /\ UNCHANGED <<conversationMessages, sent>>
       ELSE /\ conversationMessages' = allMessages(messages)
            /\ sent' = <<allMessages(messages)>>
            /\ pc' = "first"
            /\ response' = response
    /\ userId' = uid
    /\ UNCHANGED <<todos, clock, assistantMessage, iterations, callIdx, received,
                   executed, faults, rich, last>>
    /\ UNCHANGED clientVars

\* the first fetch resolves
FirstResponse(status, m, wide) ==
    /\ pc = "first"
    /\ rich' = IF wide /\ status = 200 THEN rich + 1 ELSE rich
    /\ received' = Append(received, [status |-> status, message |-> m])
    /\ IF status # 200
       THEN /\ response' = GatewayError(status)
            /\ pc' = "done"
            /\ UNCHANGED <<assistantMessage, iterations, conversationMessages, sent, callIdx>>
       ELSE /\ assistantMessage' = m
            /\ EnterLoop(m)
    /\ UNCHANGED <<todos, clock, userId, executed, faults, last>>
    /\ UNCHANGED clientVars

\* one turn of the for loop: parse the arguments, await executeTool, push the
\* tool message; after the last call, the follow-up fetch
ExecToolCall ==
    /\ pc = "tools"
    /\ LET toolCall == ToolCallAt(assistantMessage, callIdx)
           fnName == toolCall.name
       IN  IF ParseThrows(toolCall.arguments)
           THEN /\ response' = JsonResponse(500, "Unexpected token")
                /\ pc' = "done"
                /\ UNCHANGED <<todos, clock, conversationMessages, sent, callIdx,
                               executed, faults>>
           ELSE \E o \in executeTool(fnName, JSONparse(toolCall.arguments), userId,
                                     todos, clock) :
                  /\ o.failed => faults < MaxFaults
                  /\ faults' = IF o.failed THEN faults + 1 ELSE faults
                  /\ todos' = o.todos
                  /\ clock' = o.clock
                  /\ executed' = Append(executed,
                        [iteration |-> iterations, id |-> toolCall.id, name |-> fnName,
                         arguments |-> toolCall.arguments, before |-> todos,
                         after |-> o.todos, result |-> o.result, ops |-> o.ops,
                         failed |-> o.failed])
                  /\ conversationMessages' = Append(conversationMessages,
                        ToolMessage(toolCall, o.result))
                  /\ IF callIdx = Len(assistantMessage.tool_calls)
                     THEN /\ sent' = Append(sent, conversationMessages')
                          /\ pc' = "follow"
                          /\ callIdx' = 0
                     ELSE /\ sent' = sent
                          /\ pc' = pc
                          /\ callIdx' = callIdx + 1
                  /\ response' = response
    /\ UNCHANGED <<userId, assistantMessage, iterations, received, rich, last>>
    /\ UNCHANGED clientVars

\* a follow-up fetch resolves
FollowUpResponse(status, m, wide) ==
    /\ pc = "follow"
    /\ rich' = IF wide /\ status = 200 THEN rich + 1 ELSE rich
    /\ received' = Append(received, [status |-> status, message |-> m])
    /\ IF status # 200
       THEN /\ response' = StreamResponse(FinalContent(assistantMessage))
            /\ pc' = "done"
            /\ UNCHANGED <<assistantMessage, iterations, conversationMessages, sent, callIdx>>
       ELSE /\ assistantMessage' = m
            /\ EnterLoop(m)
    /\ UNCHANGED <<todos, clock, userId, executed, faults, last>>
    /\ UNCHANGED clientVars

\* what the model endpoint may answer to the n-th call
Answers(n) ==
    { <<200, m, FALSE>> : m \in ModelMessages(n, FALSE) }
    \cup (IF rich < MaxRich THEN { <<200, m, TRUE>> : m \in ModelMessages(n, TRUE) } ELSE {})
    \cup { <<s, [role |-> "assistant"], FALSE>> : s \in Statuses \ {200} }

Next ==
    \/ \E uid \in Callers, messages \in Histories : Request(uid, messages)
    \/ \E a \in Answers(Len(sent)) : FirstResponse(a[1], a[2], a[3])
    \/ ExecToolCall
    \/ \E a \in Answers(Len(sent)) : FollowUpResponse(a[1], a[2], a[3])

Spec == InitServe /\ [][Next]_vars

-----------------------------------------------------------------------------
(* Properties of the orchestration loop *)

Ok(j) == received[j].status = 200

Message(j) == received[j].message

RequestsTools(m) == Has(m, "tool_calls") /\ Len(m.tool_calls) >= 1

WellFormedCalls(m) == \A i \in 1..Len(m.tool_calls) : ~ParseThrows(m.tool_calls[i].arguments)

\* the model was asked, and its every answer so far was a success that
\* requests at least one tool call
AlwaysRequestsTools ==
    /\ Len(received) >= 1
    /\ \A j \in 1..Len(received) :
          Ok(j) /\ RequestsTools(Message(j)) /\ WellFormedCalls(Message(j))

Streamed == pc = "done" /\ response.status = 200

SettledContent == response.body[1].content

\* the responses whose tool calls were executed
ExecutedRounds == { executed[k].id[1] : k \in 1..Len(executed) }

\* C1: Against a model whose every response requests at least one tool call,
\* the loop runs exactly 5 rounds of tool execution and never a 6th (the calls
\* of the 6th response are not executed), posts at most 6 times to the model,
\* and then streams a non-empty answer: the 6th response's content, or
\* "Done!" when it has none.
C1_CapAtFiveRounds ==
    /\ iterations <= 5
    /\ Len(sent) <= 6
    /\ ExecutedRounds \subseteq 1..5
    /\ (AlwaysRequestsTools /\ pc = "done") =>
          /\ iterations = 5
          /\ Len(received) = 6
          /\ ExecutedRounds = 1..5
          /\ Streamed
          /\ SettledContent # <<>>
          /\ SettledContent = IF Has(Message(6), "content") /\ Message(6).content # <<>>
                              THEN Message(6).content ELSE <<"Done!">>

C1_Witness ==
    /\ pc = "done"
    /\ AlwaysRequestsTools
    /\ Len(received) = 6
    /\ Streamed
    /\ SettledContent = <<"Done!">>

\* the executeTool invocation for call i of response n, when it was made
Invocations(n, i) == { k \in 1..Len(executed) : executed[k].id = <<n, i>> }

IsToolMessage(m) == m.role = "tool"

ToolMessages == SelectSeq(conversationMessages, IsToolMessage)

Ids(rows) == { t.id : t \in rows }

\* C2: The tool calls of one response are executed one at a time in the order
\* they appear: each invocation is the call at the next position of its
\* response, it starts on the table the previous invocation left, and the tool
\* messages of the transcript are the results in that order.  So for a
\* response [toggle X, delete "__completed__"] with X incomplete, X is gone
\* after the round.
C2_CallsInOrder ==
    /\ \A k \in 1..Len(executed) :
          LET e == executed[k]
              call == Message(e.id[1]).tool_calls[e.id[2]]
          IN  /\ e.name = call.name /\ e.arguments = call.arguments
              /\ k > 1 => e.before = executed[k - 1].after
              /\ e.id[2] = IF k > 1 /\ executed[k - 1].id[1] = e.id[1]
                           THEN executed[k - 1].id[2] + 1 ELSE 1
    /\ Len(ToolMessages) = Len(executed)
    /\ \A k \in 1..Len(executed) :
          /\ ToolMessages[k].tool_call_id = executed[k].id
          /\ ToolMessages[k].content = executed[k].result
    /\ \A n \in 1..Len(received) :
          (/\ Ok(n) /\ Has(Message(n), "tool_calls") /\ Len(Message(n).tool_calls) = 2
           /\ Message(n).tool_calls[1].name = "toggle_todo"
           /\ Message(n).tool_calls[2].name = "delete_todo"
           /\ Message(n).tool_calls[2].arguments = JsonOf([title |-> SENTINEL])
           /\ Invocations(n, 1) # {} /\ Invocations(n, 2) # {})
          => LET t == executed[CHOOSE k \in Invocations(n, 1) : TRUE]
                 d == executed[CHOOSE k \in Invocations(n, 2) : TRUE]
                 roundEnd == IF (CHOOSE k \in Invocations(n, 1) : TRUE)
                                  < (CHOOSE k \in Invocations(n, 2) : TRUE)
                             THEN d.after ELSE t.after
                 X == { x \in t.before : /\ ~x.completed
                                         /\ \E y \in t.after : y.id = x.id /\ y.completed }
             IN  ~d.failed => Ids(X) \cap Ids(roundEnd) = {}

C2_Witness ==
    \E k \in 2..Len(executed) :
        /\ executed[k - 1].id[1] = executed[k].id[1]
        /\ executed[k - 1].name = "toggle_todo"
        /\ executed[k - 1].result = <<"Completed", ": ", "\"", "a", "\"">>
        /\ executed[k].name = "delete_todo"
        /\ executed[k].result = <<"Deleted all completed tasks.">>
        /\ Ids(executed[k - 1].before) \ Ids(executed[k].after) # {}
        /\ pc = "follow"

\* C3: Every message list posted after the first is the previous one extended
\* by the assistant message just received and one tool message per call of
\* it, in call order and carrying the call's id; the first list is the system
\* prompt and the client's history, which holds no tool message.
C3_TranscriptShape ==
    /\ Len(sent) >= 1 =>
          /\ sent[1] \in { allMessages(h) : h \in Histories }
          /\ sent[1][1].role = "system"
          /\ \A i \in 2..Len(sent[1]) : sent[1][i].role \in {"user", "assistant"}
    /\ \A j \in 2..Len(sent) :
          LET m == Message(j - 1)
              base == Len(sent[j - 1])
          IN  /\ Ok(j - 1) /\ Has(m, "tool_calls")
              /\ Len(sent[j]) = base + 1 + Len(m.tool_calls)
              /\ SubSeq(sent[j], 1, base) = sent[j - 1]
              /\ sent[j][base + 1] = m
              /\ \A i \in 1..Len(m.tool_calls) :
                    /\ sent[j][base + 1 + i].role = "tool"
                    /\ sent[j][base + 1 + i].tool_call_id = m.tool_calls[i].id

C3_Witness ==
    /\ Len(sent) >= 3
    /\ Len(Message(1).tool_calls) = 2
    /\ Len(sent[3]) = Len(sent[1]) + 5

\* C4 (as claimed): a response that carries no tool call, its list absent or
\* empty, settles the loop at once with that response's content: no round, no
\* further post to the model, no store operation.
C4_NoCallsSettles ==
    \A j \in 1..Len(received) :
        (Ok(j) /\ ~RequestsTools(Message(j))) =>
            /\ Len(sent) = j
            /\ Streamed
            /\ SettledContent = IF Has(Message(j), "content") /\ Message(j).content # <<>>
                                THEN Message(j).content ELSE <<"Done!">>
            /\ ExecutedRounds \subseteq 1..(j - 1)

\* C5: When a follow-up post to the model is answered with a failure status
\* the loop stops at once: no further post, no further tool execution, the
\* table stays as the executed rounds left it, and the request succeeds with
\* a stream of the last successful response's content, or of "Done!" when it
\* has none.
C5_FollowUpFailureSettles ==
    \A j \in 2..Len(received) :
        ~Ok(j) =>
            /\ Len(received) = j
            /\ Len(sent) = j
            /\ Ok(j - 1)
            /\ Streamed
            /\ response.type = "text/event-stream"
            /\ SettledContent =
                  IF Has(Message(j - 1), "content") /\ Message(j - 1).content # <<>>
                  THEN Message(j - 1).content ELSE <<"Done!">>
            /\ ExecutedRounds \subseteq 1..(j - 1)
            /\ Len(executed) >= 1 => todos = executed[Len(executed)].after

C5_Witness ==
    /\ Len(received) = 3
    /\ received[3].status = 429
    /\ ~Has(Message(2), "content")
    /\ Streamed
    /\ SettledContent = <<"Done!">>
    /\ Len(executed) >= 1
    /\ todos # executed[1].before

\* C6: A failure of the first post to the model is reported by kind and ends
\* the request: 429 as a 429 response, 402 as a 402 response, any other
\* failure status as a generic failure, each with a body {error}; then no tool
\* is executed, nothing is streamed, and no failed post is ever repeated.
C6_FirstFailureByKind ==
    /\ (Len(received) >= 1 /\ ~Ok(1)) =>
          /\ pc = "done"
          /\ response.type = "application/json"
          /\ DOMAIN response.body = {"error"}
          /\ received[1].status = 429 => response.status = 429
          /\ received[1].status = 402 => response.status = 402
          /\ received[1].status \notin {429, 402} => response.status \in 500..599
          /\ executed = <<>>
          /\ iterations = 0
    /\ \A j \in 1..Len(received) : ~Ok(j) => Len(sent) = j /\ Len(received) = j

C6_Witness ==
    /\ Len(received) = 1
    /\ received[1].status = 402
    /\ response.status = 402
    /\ response.body = [error |-> "Payment required"]

\* C7 (as claimed): every store failure inside a tool, in its lookup as in its
\* write, comes back as a text beginning "Error: ", and once tool calls are
\* under way the request does not end in a request-level error.
C7_FailuresAreErrorTexts ==
    /\ \A k \in 1..Len(executed) :
          executed[k].failed => Head(executed[k].result) = "Error: "
    /\ (pc = "done" /\ iterations >= 1) => response.status = 200

-----------------------------------------------------------------------------
(* Properties of executeTool *)

Called == last.n > 0

RowsOf(u, rows) == { t \in rows : t.user_id = u }

\* C8: For a name outside the catalog executeTool returns exactly
\* "Unknown tool: <name>" and awaits no store operation: the table is as it
\* was.
C8_UnknownToolIsInert ==
    (Called /\ last.name \notin {"add_todo", "list_todos", "toggle_todo",
                                 "delete_todo", "update_todo"}) =>
        /\ last.result = <<"Unknown tool: ", last.name>>
        /\ last.ops = <<>>
        /\ ~last.failed
        /\ todos = last.before

C8_Witness ==
    /\ Called
    /\ last.name = "add_task"
    /\ last.args = [title |-> <<"a">>]
    /\ last.before # {}
    /\ last.result = <<"Unknown tool: ", "add_task">>

\* C9: An invocation for user U1 leaves the rows of every other user as they
\* were, creates or changes rows of U1 only, and returns a text it would also
\* return if the table held U1's rows alone; so the rows of a user for whom
\* no invocation was made are the initial ones.
C9_CrossUserIsolation ==
    /\ Called =>
          /\ \A u \in Users \ {last.userId} : RowsOf(u, todos) = RowsOf(u, last.before)
          /\ \A t \in todos \ last.before : t.user_id = last.userId
          /\ last.result \in
                { o.result : o \in executeTool(last.name, last.args, last.userId,
                                               RowsOf(last.userId, last.before), clock) }
    /\ \A u \in Users \ last.callers :
          RowsOf(u, todos) \in { RowsOf(u, rows) : rows \in InitialStores }

C9_Witness ==
    /\ last.n = 2
    /\ last.callers = {"u1"}
    /\ last.name = "toggle_todo"
    /\ last.args = [title |-> <<"a">>]
    /\ RowsOf("u1", todos) # RowsOf("u1", last.before)
    /\ \E t \in RowsOf("u2", todos) : t.title = <<"a">>

\* C10: A successful delete of "__completed__" for user U removes all and
\* only U's completed rows: U has no completed row left, each incomplete row
\* of U is still there unchanged, and so is each row of every other user.
C10_DeleteCompleted ==
    (Called /\ last.name = "delete_todo" /\ last.args.title = SENTINEL /\ ~last.failed) =>
        /\ last.result = <<"Deleted all completed tasks.">>
        /\ todos \subseteq last.before
        /\ \A t \in RowsOf(last.userId, todos) : ~t.completed
        /\ \A t \in RowsOf(last.userId, last.before) : ~t.completed => t \in todos
        /\ \A u \in Users \ {last.userId} : RowsOf(u, todos) = RowsOf(u, last.before)

C10_Witness ==
    /\ Called
    /\ last.name = "delete_todo"
    /\ last.args.title = SENTINEL
    /\ ~last.failed
    /\ \E t \in RowsOf(last.userId, last.before) : t.completed
    /\ \E t \in RowsOf(last.userId, todos) : ~t.completed
    /\ \E u \in Users \ {last.userId} : \E t \in RowsOf(u, todos) : t.completed

\* the title the lookup of the last invocation searched for
LookupPattern == IF last.name = "update_todo" THEN last.args.old_title ELSE last.args.title

\* the last invocation looked a task up by title, and every await succeeded
ByLookup ==
    /\ Called
    /\ ~last.failed
    /\ \/ last.name \in {"toggle_todo", "update_todo"}
       \/ last.name = "delete_todo" /\ last.args.title # SENTINEL

Found == Matches(last.before, last.userId, LookupPattern)

\* the rows the last invocation changed or removed
Acted == { t \in last.before : t \notin todos }

Latest(rows) == CHOOSE x \in rows : \A y \in rows : y.created_at <= x.created_at

\* C11 (as claimed): When the title given to toggle, delete (not the
\* sentinel) or update matches several of the caller's tasks, the task acted
\* on is the match created last.
C11_LatestMatchActedOn ==
    (ByLookup /\ Cardinality(Found) >= 2) => Acted = {Latest(Found)}

\* the last invocation was a successful toggle whose title matched one task
UniqueToggle ==
    /\ Called
    /\ last.name = "toggle_todo"
    /\ ~last.failed
    /\ Cardinality(Found) = 1

TheMatch == CHOOSE t \in Found : TRUE

ToggleText(t) ==
    (IF t.completed THEN <<"Uncompleted">> ELSE <<"Completed">>)
        \o <<": ", "\"">> \o t.title \o <<"\"">>

\* the invocation before the last was the same toggle, and it succeeded
ToggledTwice ==
    /\ UniqueToggle
    /\ last.prev.name = "toggle_todo"
    /\ last.prev.args = last.args
    /\ last.prev.userId = last.userId
    /\ ~last.prev.failed

\* after two successive toggles the task has the flag it started with
FlagRestored ==
    ToggledTwice =>
        \A p \in Matches(last.prev.before, last.userId, last.args.title) :
            \E q \in todos : q.id = p.id /\ q.completed = p.completed

\* C12 (as claimed): A successful toggle whose title matches exactly one of
\* the user's tasks flips that task's completed flag once and leaves every
\* other task and every other field of the task as it was; it returns
\* Completed: "<title>" when the task is now complete and Uncompleted:
\* "<title>" otherwise; two successive toggles restore the flag.
C12_ToggleFlipsOnlyTheFlag ==
    /\ UniqueToggle =>
          /\ todos = (last.before \ {TheMatch})
                        \cup {[TheMatch EXCEPT !.completed = ~TheMatch.completed]}
          /\ last.result = ToggleText(TheMatch)
    /\ FlagRestored

\* C12 (amended): A successful toggle whose title matches exactly one of the
\* user's tasks flips that task's completed flag once and leaves every other
\* task as it was and every other field of the task except updated_at, which
\* the store refreshes; the returned text and the effect of two successive
\* toggles are as claimed.
C12_ToggleFlipsFlagAndStamp ==
    /\ UniqueToggle =>
          /\ \E q \in todos :
                /\ q = [TheMatch EXCEPT !.completed = ~TheMatch.completed,
                                        !.updated_at = q.updated_at]
                /\ q.updated_at >= TheMatch.updated_at
                /\ todos = (last.before \ {TheMatch}) \cup {q}
          /\ last.result = ToggleText(TheMatch)
    /\ FlagRestored

C12_Witness ==
    /\ ToggledTwice
    /\ last.args = [title |-> <<"B">>]
    /\ last.result = <<"Completed", ": ", "\"", "A", "b", "\"">>
    /\ \E t \in todos : t.id = 2 /\ t.completed /\ t.updated_at > 2
    /\ \E t \in todos : t.id = 1 /\ t \in last.prev.before

\* s cut at every sep: the pieces between the separators, in order
RECURSIVE Split(_, _)
Split(s, sep) ==
    IF \A i \in 1..Len(s) : s[i] # sep THEN <<s>>
    ELSE LET k == CHOOSE i \in 1..Len(s) : s[i] = sep /\ \A j \in 1..(i - 1) : s[j] # sep
         IN  <<SubSeq(s, 1, k - 1)>> \o Split(SubSeq(s, k + 1, Len(s)), sep)

Listing == Called /\ last.name = "list_todos"

\* the caller's tasks that satisfy the completed filter, when one is given
Selected ==
    { t \in last.before :
        /\ t.user_id = last.userId
        /\ (Has(last.args, "completed") => t.completed = last.args.completed) }

\* the place of t among the selected tasks, the newest first
Rank(t) == 1 + Cardinality({ u \in Selected : u.created_at > t.created_at })

\* the line for t: its number, its glyph, its title
LineHead(t) ==
    <<ToString(Rank(t)), ". [", IF t.completed THEN CheckMark ELSE " ", "] ">> \o t.title

\* C13: list never changes the store; when it succeeds it returns exactly
\* "No tasks found." if the caller has no task satisfying the optional
\* completed filter, and otherwise one line per such task and no other line,
\* newest-created first, numbered from 1, each with the checked glyph for a
\* completed task and a blank for an incomplete one.
C13_ListShowsOwnTasks ==
    Listing =>
        /\ todos = last.before
        /\ ~last.failed =>
              IF Selected = {}
              THEN last.result = <<"No tasks found.">>
              ELSE LET lines == Split(last.result, "\n")
                   IN  /\ Len(lines) = Cardinality(Selected)
                       /\ \A t \in Selected :
                             /\ Rank(t) \in 1..Len(lines)
                             /\ Len(lines[Rank(t)]) >= Len(LineHead(t))
                             /\ SubSeq(lines[Rank(t)], 1, Len(LineHead(t))) = LineHead(t)
                             /\ t.due_at = Null => lines[Rank(t)] = LineHead(t)

C13_Witness ==
    /\ Listing
    /\ ~last.failed
    /\ last.userId = "u1"
    /\ last.args = EmptyArgs
    /\ Cardinality(Selected) = 2
    /\ \E t \in last.before : t.user_id = "u2"
    /\ Split(last.result, "\n")[1] =
          <<"1", ". [", CheckMark, "] ", "A", "b", " [due: ", "2/15/2026", "]">>
    /\ Split(last.result, "\n")[2] = <<"2", ". [", " ", "] ", "a">>

Adding == Called /\ last.name = "add_todo" /\ ~last.failed

\* the last invocation was a successful unfiltered list for the user whose
\* successful add came right before it
ListedAfterAdd ==
    /\ Listing
    /\ ~last.failed
    /\ last.args = EmptyArgs
    /\ last.prev.name = "add_todo"
    /\ ~last.prev.failed
    /\ last.prev.userId = last.userId

\* C14: After a successful add(T) for user U the store holds exactly one new
\* task, owned by U, titled T, not completed, with a due date only if one was
\* supplied; every task held before is unchanged; and an unfiltered list for
\* U that follows contains a line with T and the blank glyph.
C14_AddCreatesOneTask ==
    /\ Adding =>
          /\ last.before \subseteq todos
          /\ Cardinality(todos \ last.before) = 1
          /\ \A t \in todos \ last.before :
                /\ t.user_id = last.userId
                /\ t.title = last.args.title
                /\ ~t.completed
                /\ t.due_at = (IF Has(last.args, "due_at") THEN last.args.due_at ELSE Null)
    /\ ListedAfterAdd =>
          LET lines == Split(last.result, "\n")
              T == last.prev.args.title
          IN  \E k \in 1..Len(lines) :
                /\ Len(lines[k]) >= 4 + Len(T)
                /\ SubSeq(lines[k], 1, 4 + Len(T)) = <<ToString(k), ". [", " ", "] ">> \o T

C14_Witness ==
    /\ ListedAfterAdd
    /\ last.userId = "u1"
    /\ last.prev.args = [title |-> <<"A", "b">>]
    /\ last.prev.before # {}
    /\ Cardinality(RowsOf("u1", todos)) = 3
    /\ Split(last.result, "\n")[1] = <<"1", ". [", " ", "] ", "A", "b">>
    /\ \E t \in todos : t.title = <<"A", "b">> /\ t.completed

-----------------------------------------------------------------------------
(* The event stream.  The text on the wire is a sequence of pieces: the    *)
(* fixed fragments of the JSON envelope are one piece each and the         *)
(* characters of a string literal are one piece each, so a chunk boundary  *)
(* can fall before or after any of them.                                   *)

MaxReads == 2          \* chunks the reader returns per stream
MaxLines == 2          \* lines of a stream that does not come from the encoder
MaxSends == 2          \* sends started from the input of one page

DataPrefix == "data: "
DoneToken == "[DONE]"
OpenDelta == "{\"choices\":[{\"delta\":{"
CloseDelta == "}}]}"
ContentKey == "\"content\":"
ToolCallsKey == "\"tool_calls\":"
Comma == ","
Quote == "\""
Backslash == "\\"
LF == "\n"
CR == "\r"

RECURSIVE Flatten(_)
Flatten(ss) == IF ss = <<>> THEN <<>> ELSE Head(ss) \o Flatten(Tail(ss))

\* the escape JSON.stringify writes for a character of a string
Escape(c) ==
    CASE c = Quote     -> <<Backslash, Quote>>
      [] c = Backslash -> <<Backslash, Backslash>>
      [] c = LF        -> <<Backslash, "n">>
      [] c = CR        -> <<Backslash, "r">>
      [] OTHER         -> <<c>>

\* JSON.stringify of a string
JSONstringifyString(x) ==
    <<Quote>> \o Flatten([i \in 1..Len(x) |-> Escape(x[i])]) \o <<Quote>>

\* JSON.stringify({ choices: [{ delta: { content: finalContent } }] })
JSONstringifyDelta(finalContent) ==
    <<OpenDelta, ContentKey>> \o JSONstringifyString(finalContent) \o <<CloseDelta>>

\* the two chunks in the order of their announcement
StreamChunks_DoneFirst(finalContent) ==
    << <<DataPrefix, DoneToken, LF, LF>>,
       <<DataPrefix>> \o JSONstringifyDelta(finalContent) \o <<LF, LF>> >>

\* the chunks start(controller) enqueues
StreamChunks(finalContent) ==
    << <<DataPrefix>> \o JSONstringifyDelta(finalContent) \o <<LF, LF>>,
       <<DataPrefix, DoneToken, LF, LF>> >>

\* the answers the loop may settle on
SettledAnswers ==
    { FinalContent(m) :
        m \in { [role |-> "assistant"],
                [role |-> "assistant", content |-> <<>>],
                [role |-> "assistant", content |-> <<"o", "k">>],
                [role |-> "assistant", content |-> <<"a", LF, Quote, "b", Quote>>],
                [role |-> "assistant", content |-> <<Backslash, "n", CR, LF>>],
                [role |-> "assistant", content |-> <<"data: ", "[DONE]">>] } }

-----------------------------------------------------------------------------
(* The client: the stream consumer of send (src/pages/Chat.tsx) *)

IsSpace(c) == c \in {" ", "\t", LF, CR}

RECURSIVE TrimStart(_)
TrimStart(s) == IF s # <<>> /\ IsSpace(Head(s)) THEN TrimStart(Tail(s)) ELSE s

RECURSIVE TrimEnd(_)
TrimEnd(s) ==
    IF s # <<>> /\ IsSpace(s[Len(s)]) THEN TrimEnd(SubSeq(s, 1, Len(s) - 1)) ELSE s

\* String.prototype.trim
Trim(s) == TrimEnd(TrimStart(s))

\* the value JSON.parse was not able to produce
SyntaxError == [ok |-> FALSE, value |-> <<>>, rest |-> <<>>]

Escapes == {"n", "r", Quote, Backslash}

\* the character after the backslash taken as it stands
Unescape_Raw(c) == c

Unescape(c) ==
    CASE c = "n" -> LF
      [] c = "r" -> CR
      [] OTHER   -> c

\* JSON.parse inside a string literal, after its opening quote: the string
\* read so far is acc; a control character or an unknown escape is an error
RECURSIVE ScanString(_, _)
ScanString(s, acc) ==
    IF s = <<>> THEN SyntaxError
    ELSE IF Head(s) = Quote THEN [ok |-> TRUE, value |-> acc, rest |-> Tail(s)]
    ELSE IF Head(s) = Backslash
         THEN IF Len(s) >= 2 /\ s[2] \in Escapes
              THEN ScanString(Tail(Tail(s)), Append(acc, Unescape(s[2])))
              ELSE SyntaxError
    ELSE IF Head(s) \in {LF, CR, "\t"} THEN SyntaxError
    ELSE ScanString(Tail(s), Append(acc, Head(s)))

\* delta with its property k set to v
WithField(delta, k, v) ==
    [x \in DOMAIN delta \cup {k} |-> IF x = k THEN v ELSE delta[x]]

\* JSON.parse at a member of the delta object: "content" with a string or
\* null, "tool_calls" with an array or null; then a comma and another member,
\* or the closing braces.  A null leaves the property unset.
RECURSIVE ParseMembers(_, _)
ParseMembers(s, delta) ==
    LET after(rest, d) ==
            IF rest = <<CloseDelta>> THEN [ok |-> TRUE, value |-> d, rest |-> <<>>]
            ELSE IF rest # <<>> /\ Head(rest) = Comma THEN ParseMembers(Tail(rest), d)
            ELSE SyntaxError
    IN  IF Len(s) < 2 THEN SyntaxError
        ELSE IF s[1] = ContentKey
             THEN IF s[2] = "null" THEN after(Tail(Tail(s)), delta)
                  ELSE IF s[2] = Quote
                       THEN LET str == ScanString(Tail(Tail(s)), <<>>)
                            IN  IF str.ok
                                THEN after(str.rest, WithField(delta, "content", str.value))
                                ELSE SyntaxError
                  ELSE SyntaxError
        ELSE IF s[1] = ToolCallsKey
             THEN IF s[2] = "null" THEN after(Tail(Tail(s)), delta)
                  ELSE IF s[2] \in {"[]", "[{}]"}
                       THEN after(Tail(Tail(s)), WithField(delta, "tool_calls", s[2]))
                  ELSE SyntaxError
        ELSE SyntaxError

\* JSON.parse(jsonStr) and parsed.choices?.[0]?.delta: the delta's properties
\* that are set, or the error thrown
ParseDelta(jsonStr) ==
    IF jsonStr = <<"{}">> \/ jsonStr = <<OpenDelta, CloseDelta>>
    THEN [ok |-> TRUE, value |-> <<>>, rest |-> <<>>]
    ELSE IF jsonStr # <<>> /\ Head(jsonStr) = OpenDelta
         THEN ParseMembers(Tail(jsonStr), <<>>)
    ELSE SyntaxError

\* what send keeps while it consumes a stream
Consumer(buffer, soFar, msgs, refresh, calls) ==
    [textBuffer |-> buffer, assistantSoFar |-> soFar, chatMessages |-> msgs,
     todoRefresh |-> refresh, upserts |-> calls]

\* the message showing the last delta alone
upsertAssistant_ChunkOnly(c, chunk) ==
    LET soFar == c.assistantSoFar \o chunk
        prev == c.chatMessages
    IN  [c EXCEPT !.assistantSoFar = soFar,
                  !.upserts = Append(c.upserts, chunk),
                  !.chatMessages =
                      IF Len(prev) > 0 /\ prev[Len(prev)].role = "assistant"
                      THEN [prev EXCEPT ![Len(prev)].content = chunk]
                      ELSE Append(prev, [role |-> "assistant", content |-> chunk])]

\* upsertAssistant(chunk)
upsertAssistant(c, chunk) ==
    LET soFar == c.assistantSoFar \o chunk
        prev == c.chatMessages
    IN  [c EXCEPT !.assistantSoFar = soFar,
                  !.upserts = Append(c.upserts, chunk),
                  !.chatMessages =
                      IF Len(prev) > 0 /\ prev[Len(prev)].role = "assistant"
                      THEN [prev EXCEPT ![Len(prev)].content = soFar]
                      ELSE Append(prev, [role |-> "assistant", content |-> soFar])]

\* the buffer taking a chunk without what it held
Received_NoCarry(buffer, chunk) == chunk

\* textBuffer += decoder.decode(value, { stream: true })
Received(buffer, chunk) == buffer \o chunk

\* a line that failed to parse left out of the buffer
PutBack_Dropped(line, rest) == rest

\* textBuffer = line + "\n" + textBuffer
PutBack(line, rest) == line \o <<LF>> \o rest

\* if (line.endsWith("\r")) line = line.slice(0, -1)
StripCR(line) ==
    IF line # <<>> /\ line[Len(line)] = CR THEN SubSeq(line, 1, Len(line) - 1) ELSE line

\* what a line, its "\r" removed, makes the loops do: skip it, stop at the
\* sentinel, apply its delta, or catch the parse error
Handle(line) ==
    IF line # <<>> /\ Head(line) = ":" THEN [kind |-> "skip"]
    ELSE IF Trim(line) = <<>> THEN [kind |-> "skip"]
    ELSE IF Head(line) # DataPrefix THEN [kind |-> "skip"]
    ELSE LET jsonStr == Trim(Tail(line))
             parsed == ParseDelta(jsonStr)
         IN  IF jsonStr = <<DoneToken>> THEN [kind |-> "done"]
             ELSE IF parsed.ok THEN [kind |-> "delta", delta |-> parsed.value]
             ELSE [kind |-> "throw"]

HasLF(s) == \E i \in 1..Len(s) : s[i] = LF

\* textBuffer.indexOf("\n"), counted from 1
IndexOfLF(s) == CHOOSE i \in 1..Len(s) : s[i] = LF /\ \A j \in 1..(i - 1) : s[j] # LF

\* if (content) upsertAssistant(content)
ApplyContent(c, delta) ==
    IF Has(delta, "content") /\ delta.content # <<>>
    THEN upsertAssistant(c, delta.content) ELSE c

\* if (toolCalls) setTodoRefresh((prev) => prev + 1)
ApplyToolCalls(c, delta) ==
    IF Has(delta, "tool_calls") THEN [c EXCEPT !.todoRefresh = c.todoRefresh + 1] ELSE c

\* the inner while loop: line after line off the head of the buffer, until no
\* newline is left, the sentinel is met, or a payload fails to parse
RECURSIVE DrainLines(_)
DrainLines(c) ==
    IF ~HasLF(c.textBuffer) THEN c
    ELSE LET newlineIndex == IndexOfLF(c.textBuffer)
             line == StripCR(SubSeq(c.textBuffer, 1, newlineIndex - 1))
             rest == SubSeq(c.textBuffer, newlineIndex + 1, Len(c.textBuffer))
             h == Handle(line)
             d == [c EXCEPT !.textBuffer = rest]
         IN  CASE h.kind = "skip"  -> DrainLines(d)
               [] h.kind = "done"  -> d
               [] h.kind = "delta" -> DrainLines(ApplyToolCalls(ApplyContent(d, h.delta), h.delta))
               [] h.kind = "throw" -> [c EXCEPT !.textBuffer = PutBack(line, rest)]

\* one turn of the read loop for a chunk
ReadChunk(c, chunk) ==
    DrainLines([c EXCEPT !.textBuffer = Received(c.textBuffer, chunk)])

\* the final flush over the pieces raws[i..] of textBuffer.split("\n")
RECURSIVE FlushLines(_, _, _)
FlushLines(c, raws, i) ==
    IF i > Len(raws) THEN c
    ELSE LET h == Handle(StripCR(raws[i]))
         IN  IF raws[i] # <<>> /\ h.kind = "delta"
             THEN FlushLines(ApplyContent(c, h.delta), raws, i + 1)
             ELSE FlushLines(c, raws, i + 1)

\* if (textBuffer.trim()) { for (let raw of textBuffer.split("\n")) ... }
Flush(c) ==
    IF Trim(c.textBuffer) # <<>> THEN FlushLines(c, Split(c.textBuffer, LF), 1) ELSE c

\* the consumer after the chunks cs and the end of the stream
RECURSIVE ReadAll(_, _)
ReadAll(c, cs) == IF cs = <<>> THEN Flush(c) ELSE ReadAll(ReadChunk(c, Head(cs)), Tail(cs))

\* the visible transcript before the send: an earlier exchange
History ==
    << [role |-> "user", content |-> <<"h", "i">>],
       [role |-> "assistant", content |-> <<"o", "k">>] >>

Inputs == { <<"g", "o">> }

\* the signed-in user and the conversation of this page
user == [id |-> "u1"]
conversationId == "c1"

\* a row of chat_messages
ChatRow(role, content) ==
    [user_id |-> user.id, conversation_id |-> conversationId, role |-> role,
     content |-> content]

\* the rows the transcript msgs was loaded from
Stored(msgs) == [ i \in 1..Len(msgs) |-> ChatRow(msgs[i].role, msgs[i].content) ]

Last(seq) == seq[Len(seq)]

\* send's own state as the read loop starts, on the transcript msgs
Fresh(msgs) == Consumer(<<>>, <<>>, msgs, 0, <<>>)

\* send's state now
Now == Consumer(textBuffer, assistantSoFar, chatMessages, todoRefresh, upserts)

\* the payload of a data line carrying the delta { content: x }
ContentPayload(x) == JSONstringifyDelta(x)

ToolCallsPayload == <<OpenDelta, ToolCallsKey, "[{}]", CloseDelta>>

\* the lines an event stream is made of, without their newline
DataLines ==
    { <<DataPrefix>> \o ContentPayload(<<"a">>),
      <<DataPrefix>> \o ContentPayload(<<"b">>) \o <<CR>>,
      <<DataPrefix>> \o ToolCallsPayload }

DoneLine == <<DataPrefix, DoneToken>>

\* a data line whose payload is cut short
MalformedLine == <<DataPrefix, OpenDelta, ContentKey>>

\* a comment line and a line that does not begin with "data: "; the blank
\* lines of a body are those of its framing
IgnoredLines == { <<":", "k">>, <<"event: x">> }

Lines == DataLines \cup {DoneLine, MalformedLine} \cup IgnoredLines

RECURSIVE LineSeqs(_)
LineSeqs(n) ==
    IF n = 0 THEN {<<>>}
    ELSE LineSeqs(n - 1) \cup { Append(l, x) : l \in LineSeqs(n - 1), x \in Lines }

\* the text of the lines ls, each ended by its newline
Text(ls) == Flatten([i \in 1..Len(ls) |-> ls[i] \o <<LF>>])

\* the text of the lines ls, each followed by a blank line as the encoder
\* writes its events
Framed(ls) == Flatten([i \in 1..Len(ls) |-> ls[i] \o <<LF, LF>>])

\* the texts a body may carry: lines ended by newlines, framed as events or
\* not, or with a last line that is not ended
Bodies ==
    LET lss == LineSeqs(MaxLines) \ {<<>>}
    IN  { Text(ls) : ls \in lss }
        \cup { Framed(ls) : ls \in lss }
        \cup { SubSeq(Text(ls), 1, Len(Text(ls)) - 1) : ls \in lss }

InitStream ==
    /\ todos = {}
    /\ InitRest
    /\ race = NoRace
    /\ stream = NoStream
    /\ wire = <<>>
    /\ reads = <<>>
    /\ cpc = "idle"
    /\ textBuffer = <<>>
    /\ assistantSoFar = <<>>
    /\ chatMessages = History
    /\ todoRefresh = 0
    /\ upserts = <<>>
    /\ isLoading = FALSE
    /\ chatRows = Stored(History)
    /\ toasts = <<>>

\* the sends started on this page: the user messages past the loaded history
Sends == Cardinality({ i \in Len(History) + 1..Len(chatMessages) :
                          chatMessages[i].role = "user" })

\* handleSubmit with the input enabled, and send up to the insert of the
\* user message
Send(input) ==
    /\ ~isLoading
    /\ Trim(input) # <<>>
    /\ Sends < MaxSends
    /\ chatMessages' = Append(chatMessages, [role |-> "user", content |-> Trim(input)])
    /\ isLoading' = TRUE
    /\ stream' = NoStream
    /\ wire' = <<>>
    /\ reads' = <<>>
    /\ textBuffer' = <<>>
    /\ assistantSoFar' = <<>>
    /\ upserts' = <<>>
    /\ cpc' = "insert"
    /\ UNCHANGED <<todoRefresh, chatRows, toasts>>
    /\ UNCHANGED serverVars
    /\ UNCHANGED race

\* the insert of the user message resolves, with a row or with an error that
\* send does not look at; the fetch follows
UserInserted(ok) ==
    /\ cpc = "insert"
    /\ chatRows' = IF ok
                   THEN Append(chatRows, ChatRow("user", Last(chatMessages).content))
                   ELSE chatRows
    /\ cpc' = "fetch"
    /\ UNCHANGED <<stream, wire, reads, textBuffer, assistantSoFar, chatMessages,
                   todoRefresh, upserts, isLoading, toasts>>
    /\ UNCHANGED serverVars
    /\ UNCHANGED race

\* the handler returns its streamed Response for the answer it settled on:
\* the stream starts, both chunks are enqueued and the stream is closed; the
\* fetch resolves with it as the body
Start(finalContent) ==
    /\ cpc = "fetch"
    /\ pc = "idle"
    /\ response' = StreamResponse(finalContent)
    /\ pc' = "done"
    /\ stream' = [chunks |-> StreamChunks(finalContent), closed |-> TRUE]
    /\ wire' = Flatten(stream'.chunks)
    /\ cpc' = "reading"
    /\ UNCHANGED <<reads, textBuffer, assistantSoFar, chatMessages, todoRefresh, upserts,
                   isLoading, chatRows, toasts>>
    /\ UNCHANGED <<todos, clock, userId, conversationMessages, assistantMessage,
                   iterations, callIdx, sent, received, executed, faults, rich, last>>
    /\ UNCHANGED race

\* the fetch resolves with a body carrying some other event stream
Upstream(text) ==
    /\ cpc = "fetch"
    /\ text # <<>>
    /\ stream' = [chunks |-> <<text>>, closed |-> TRUE]
    /\ wire' = text
    /\ cpc' = "reading"
    /\ UNCHANGED <<reads, textBuffer, assistantSoFar, chatMessages, todoRefresh, upserts,
                   isLoading, chatRows, toasts>>
    /\ UNCHANGED serverVars
    /\ UNCHANGED race

\* the title of the notice for a response that starts no stream
Notice(status) ==
    IF status = 429 THEN "Rate limited"
    ELSE IF status = 402 THEN "Usage limit"
    ELSE "Error"

\* the fetch resolves with a status that starts no stream: the two early
\* returns and the throw, each followed by the finally block
Refused(status) ==
    /\ cpc = "fetch"
    /\ toasts' = Append(toasts, Notice(status))
    /\ isLoading' = FALSE
    /\ cpc' = "ended"
    /\ UNCHANGED <<stream, wire, reads, textBuffer, assistantSoFar, chatMessages,
                   todoRefresh, upserts, chatRows>>
    /\ UNCHANGED serverVars
    /\ UNCHANGED race

\* the catch block without a finally block
Caught_NoFinally ==
    /\ toasts' = Append(toasts, "Error")
    /\ isLoading' = isLoading
    /\ cpc' = "ended"

\* the catch block and the finally block
Caught ==
    /\ toasts' = Append(toasts, "Error")
    /\ isLoading' = FALSE
    /\ cpc' = "ended"

\* the fetch rejects
FetchRejected ==
    /\ cpc = "fetch"
    /\ Caught
    /\ UNCHANGED <<stream, wire, reads, textBuffer, assistantSoFar, chatMessages,
                   todoRefresh, upserts, chatRows>>
    /\ UNCHANGED serverVars
    /\ UNCHANGED race

\* reader.read() yields the next n pieces of the body, and the inner loop runs
Read(n) ==
    /\ cpc = "reading"
    /\ n \in 1..Len(wire)
    /\ Len(reads) + 1 >= MaxReads => n = Len(wire)
    /\ LET chunk == SubSeq(wire, 1, n)
           c == ReadChunk(Now, chunk)
       IN  /\ reads' = Append(reads, chunk)
           /\ wire' = SubSeq(wire, n + 1, Len(wire))
           /\ textBuffer' = c.textBuffer
           /\ assistantSoFar' = c.assistantSoFar
           /\ chatMessages' = c.chatMessages
           /\ todoRefresh' = c.todoRefresh
           /\ upserts' = c.upserts
    /\ UNCHANGED <<stream, cpc, isLoading, chatRows, toasts>>
    /\ UNCHANGED serverVars
    /\ UNCHANGED race

\* a catch block that stores what it has of the answer
ReadRejected_Persisting ==
    /\ cpc = "reading"
    /\ Caught
    /\ chatRows' = Append(chatRows, ChatRow("assistant", assistantSoFar))
    /\ UNCHANGED <<stream, wire, reads, textBuffer, assistantSoFar, chatMessages,
                   todoRefresh, upserts>>
    /\ UNCHANGED serverVars
    /\ UNCHANGED race

\* a catch block that takes the unfinished answer off the transcript
ReadRejected_RollsBack ==
    /\ cpc = "reading"
    /\ Caught
    /\ chatMessages' = IF Last(chatMessages).role = "assistant"
                       THEN SubSeq(chatMessages, 1, Len(chatMessages) - 1)
                       ELSE chatMessages
    /\ UNCHANGED <<stream, wire, reads, textBuffer, assistantSoFar, todoRefresh,
                   upserts, chatRows>>
    /\ UNCHANGED serverVars
    /\ UNCHANGED race

\* reader.read() rejects: what the body still held is never read
ReadRejected ==
    /\ cpc = "reading"
    /\ Caught
    /\ UNCHANGED <<stream, wire, reads, textBuffer, assistantSoFar, chatMessages,
                   todoRefresh, upserts, chatRows>>
    /\ UNCHANGED serverVars
    /\ UNCHANGED race

\* reader.read() reports done: the final flush, up to the insert of the
\* answer, or to the finally block when there is no answer to insert
ReadDone ==
    /\ cpc = "reading"
    /\ wire = <<>>
    /\ stream.closed
    /\ LET c == Flush(Now)
       IN  /\ textBuffer' = c.textBuffer
           /\ assistantSoFar' = c.assistantSoFar
           /\ chatMessages' = c.chatMessages
           /\ todoRefresh' = c.todoRefresh
           /\ upserts' = c.upserts
           /\ cpc' = IF c.assistantSoFar # <<>> THEN "persist" ELSE "ended"
           /\ isLoading' = (c.assistantSoFar # <<>>)
    /\ UNCHANGED <<stream, wire, reads, chatRows, toasts>>
    /\ UNCHANGED serverVars
    /\ UNCHANGED race

\* the insert of the answer resolves, with a row or with an error that send
\* does not look at: the refresh that follows it, and the finally block
Persisted(ok) ==
    /\ cpc = "persist"
    /\ chatRows' = IF ok THEN Append(chatRows, ChatRow("assistant", assistantSoFar))
                   ELSE chatRows
    /\ todoRefresh' = todoRefresh + 1
    /\ isLoading' = FALSE
    /\ cpc' = "ended"
    /\ UNCHANGED <<stream, wire, reads, textBuffer, assistantSoFar, chatMessages, upserts,
                   toasts>>
    /\ UNCHANGED serverVars
    /\ UNCHANGED race

\* one send whose stream starts and is read to its end
NextStream ==
    \/ \E input \in Inputs : cpc = "idle" /\ Send(input)
    \/ UserInserted(TRUE)
    \/ \E finalContent \in SettledAnswers : Start(finalContent)
    \/ \E text \in Bodies : Upstream(text)
    \/ \E n \in 1..Len(wire) : Read(n)
    \/ ReadDone
    \/ Persisted(TRUE)

SpecStream == InitStream /\ [][NextStream]_vars

Ended == cpc = "ended"

-----------------------------------------------------------------------------
(* Properties of the event stream and of its consumer *)

\* the lines of a text that are not empty, in order
NonEmptyLines(text) == SelectSeq(Split(text, LF), LAMBDA l : l # <<>>)

\* the handler's stream is the body being consumed
FromHandler == Streamed /\ stream # NoStream

\* C15: For a settled answer the encoder emits exactly two events, in this
\* order, and then closes the stream: one "data:" event whose JSON payload's
\* delta content is the whole answer, then "data: [DONE]"; each event is
\* enqueued whole as one chunk ended by a blank line, the answer is in no
\* other event, and nothing follows the sentinel.
C15_TwoEventsThenClose ==
    FromHandler =>
        /\ stream.closed
        /\ Len(stream.chunks) = 2
        /\ LET first == stream.chunks[1]
               second == stream.chunks[2]
               payload == ParseDelta(SubSeq(first, 2, Len(first) - 2))
           IN  /\ Len(first) >= 3
               /\ Head(first) = DataPrefix
               /\ SubSeq(first, Len(first) - 1, Len(first)) = <<LF, LF>>
               /\ Len(NonEmptyLines(first)) = 1
               /\ payload.ok
               /\ DOMAIN payload.value = {"content"}
               /\ payload.value.content = SettledContent
               /\ second = <<DataPrefix, DoneToken, LF, LF>>

C15_Witness ==
    /\ FromHandler
    /\ SettledContent = <<"a", LF, Quote, "b", Quote>>
    /\ stream.chunks[1] = <<DataPrefix, OpenDelta, ContentKey, Quote, "a", Backslash, "n",
                            Backslash, Quote, "b", Backslash, Quote, Quote, CloseDelta,
                            LF, LF>>
    /\ stream.closed
    /\ wire = <<>>

\* the transcripts send may have left when the read loop started
Started == { Append(History, [role |-> "user", content |-> input]) : input \in Inputs }

\* C16: Feeding the encoder's output for a settled answer to the consumer,
\* however the body is cut into chunks, adds exactly one assistant message to
\* the visible transcript, its content equal to that answer, and no other
\* message; until then the transcript is as send left it.
C16_RoundTrip ==
    FromHandler =>
        \E before \in Started :
            /\ chatMessages \in
                  { before,
                    Append(before, [role |-> "assistant", content |-> SettledContent]) }
            /\ Ended =>
                  /\ chatMessages =
                        Append(before, [role |-> "assistant", content |-> SettledContent])
                  /\ assistantSoFar = SettledContent
                  /\ upserts = <<SettledContent>>

C16_Witness ==
    /\ FromHandler
    /\ Ended
    /\ Len(reads) = 2
    /\ Len(reads[1]) = 6
    /\ SettledContent = <<Backslash, "n", CR, LF>>
    /\ chatMessages[Len(chatMessages)] =
          [role |-> "assistant", content |-> <<Backslash, "n", CR, LF>>]

\* the text the reader has returned so far
Arrived == Flatten(reads)

\* the stream has been read to its end and flushed
Flushed == cpc \in {"persist", "ended"}

\* the lines of a text, their "\r" removed, and what each makes the loops do
LinesOf(text) ==
    LET ls == Split(text, LF) IN [i \in 1..Len(ls) |-> StripCR(ls[i])]

Kinds(text) ==
    LET ls == LinesOf(text) IN [i \in 1..Len(ls) |-> Handle(ls[i]).kind]

\* no data line of the text fails to parse, and the sentinel, if there, is
\* followed by no data line
WellFormed(text) ==
    LET ks == Kinds(text)
    IN  /\ \A i \in 1..Len(ks) : ks[i] # "throw"
        /\ \A i, j \in 1..Len(ks) : (ks[i] = "done" /\ j > i) => ks[j] = "skip"

\* the part of a text after its last newline
RECURSIVE LastTail(_)
LastTail(text) ==
    IF HasLF(text) THEN LastTail(SubSeq(text, IndexOfLF(text) + 1, Len(text))) ELSE text

IsSuffix(s, t) == Len(s) <= Len(t) /\ SubSeq(t, Len(t) - Len(s) + 1, Len(t)) = s

\* the contents of those of the lines ls that are data lines carrying one
LineContents(ls) ==
    LET carries(l) == /\ Handle(l).kind = "delta"
                      /\ Has(Handle(l).delta, "content")
                      /\ Handle(l).delta.content # <<>>
        with == SelectSeq(ls, carries)
    IN  [i \in 1..Len(with) |-> Handle(with[i]).delta.content]

\* the contents of the data lines of a text that carry one, in order
ContentsOf(text) == LineContents(LinesOf(text))

\* C17: For every well-formed stream and every cut of it into chunks, the
\* tail of a chunk after its last newline is held in the buffer and the next
\* chunk is appended to it; each data line with content yields exactly one
\* delta, in order; and the text, like the transcript, is at the end the one
\* obtained when the stream arrives as a single chunk.
C17_ChunkingIndependent ==
    (cpc \in {"reading", "persist", "ended"} /\ WellFormed(Arrived)) =>
        /\ cpc = "reading" =>
              /\ IsSuffix(LastTail(Arrived), textBuffer)
              /\ IsSuffix(textBuffer, Arrived)
        /\ Flushed =>
              /\ upserts = ContentsOf(Arrived)
              /\ assistantSoFar = Flatten(upserts)
              /\ \E before \in Started :
                    LET once == ReadAll(Fresh(before), <<Arrived>>)
                    IN  /\ assistantSoFar = once.assistantSoFar
                        /\ chatMessages = once.chatMessages

C17_Witness ==
    /\ Flushed
    /\ Len(reads) = 2
    /\ WellFormed(Arrived)
    /\ reads[1] = <<DataPrefix, OpenDelta, ContentKey, Quote>>
    /\ Len(upserts) = 2
    /\ assistantSoFar = <<"a", "b">>

\* for each piece of a text, whether it belongs to a line the filters let
\* through: one that is no comment, not blank, and begins with "data: "
RECURSIVE KeepMask(_)
KeepMask(text) ==
    IF text = <<>> THEN <<>>
    ELSE LET n == IF HasLF(text) THEN IndexOfLF(text) ELSE Len(text)
             line == IF HasLF(text) THEN SubSeq(text, 1, n - 1) ELSE text
             keep == Handle(StripCR(line)).kind # "skip"
         IN  [i \in 1..n |-> keep] \o KeepMask(SubSeq(text, n + 1, Len(text)))

\* the pieces i..j of a text that the mask keeps
RECURSIVE Pick(_, _, _, _)
Pick(text, mask, i, j) ==
    IF i > j THEN <<>>
    ELSE (IF mask[i] THEN <<text[i]>> ELSE <<>>) \o Pick(text, mask, i + 1, j)

\* the chunks rs of a text, from offset off on, without the pieces of the
\* filtered lines; a chunk left empty is no chunk
RECURSIVE StripChunks(_, _, _, _)
StripChunks(rs, text, mask, off) ==
    IF rs = <<>> THEN <<>>
    ELSE LET c == Pick(text, mask, off + 1, off + Len(Head(rs)))
         IN  (IF c = <<>> THEN <<>> ELSE <<c>>)
                 \o StripChunks(Tail(rs), text, mask, off + Len(Head(rs)))

\* the stream as it arrived, its comment, blank and non-data lines removed
Stripped == StripChunks(reads, Arrived, KeepMask(Arrived), 0)

\* send's state at its end, had the chunks cs arrived
AtEnd(before, cs) ==
    LET c == ReadAll(Fresh(before), cs)
    IN  IF c.assistantSoFar # <<>> THEN [c EXCEPT !.todoRefresh = c.todoRefresh + 1] ELSE c

\* C18 (as claimed): Comment lines, blank lines and lines that do not begin
\* with "data: ", wherever they stand in the stream, have no visible effect:
\* at the end of send the visible transcript and the refresh counter are
\* those obtained from the same stream with these lines removed.
C18_IgnoredLinesInvisible ==
    Ended =>
        \E before \in Started :
            LET end == AtEnd(before, Stripped)
            IN  /\ chatMessages = end.chatMessages
                /\ todoRefresh = end.todoRefresh

IsPrefix(s, t) == Len(s) <= Len(t) /\ SubSeq(t, 1, Len(s)) = s

\* the lines of a text before its first sentinel line
UpToSentinel(text) ==
    LET ls == LinesOf(text)
        ks == Kinds(text)
        dones == { i \in 1..Len(ks) : ks[i] = "done" }
    IN  IF dones = {} THEN ls
        ELSE SubSeq(ls, 1, (CHOOSE i \in dones : \A j \in dones : i <= j) - 1)

\* C19 (as claimed): The sentinel ends the logical stream: once a
\* "data: [DONE]" line has arrived, no content of a data line after it, in
\* the same chunk, in a later chunk or in the final flush, is appended to the
\* assistant message; what was appended comes from the lines before it.
C19_NothingAfterSentinel ==
    IsPrefix(upserts, LineContents(UpToSentinel(Arrived)))

\* a text after its first k lines and their newlines
RECURSIVE AfterLines(_, _)
AfterLines(text, k) ==
    IF k = 0 THEN text
    ELSE AfterLines(SubSeq(text, IndexOfLF(text) + 1, Len(text)), k - 1)

\* the first line of what arrived that is a data line failing to parse, when
\* its newline has arrived and no sentinel stands before it; 0 if none
FirstMalformed ==
    LET ks == Kinds(Arrived)
        bad == { i \in 1..(Len(ks) - 1) :
                    /\ ks[i] = "throw"
                    /\ \A j \in 1..(i - 1) : ks[j] \notin {"throw", "done"} }
    IN  IF bad = {} THEN 0 ELSE CHOOSE i \in bad : TRUE

ToolCallLines(ls) ==
    Len(SelectSeq(ls, LAMBDA l : Handle(l).kind = "delta" /\ Has(Handle(l).delta, "tool_calls")))

\* C20: A data line whose payload fails to parse is not dropped and no error
\* is raised: while the stream is read the line stands at the head of the
\* buffer with everything that arrived after it, the lines before it having
\* been applied and none after it, read after read; and when send has
\* flushed, the well-formed data lines after it, up to the sentinel, have
\* been applied in arrival order.
C20_MalformedLineKept ==
    /\ (cpc = "reading" /\ FirstMalformed > 0) =>
          LET ls == LinesOf(Arrived)
              m == FirstMalformed
          IN  /\ textBuffer = ls[m] \o <<LF>> \o AfterLines(Arrived, m)
              /\ upserts = LineContents(SubSeq(ls, 1, m - 1))
              /\ todoRefresh = ToolCallLines(SubSeq(ls, 1, m - 1))
    /\ Flushed => IsPrefix(LineContents(UpToSentinel(Arrived)), upserts)
    /\ cpc \in {"idle", "insert", "fetch", "reading", "persist", "ended"}

C20_Witness ==
    /\ Flushed
    /\ Len(reads) = 2
    /\ reads[1] = MalformedLine \o <<LF, DataPrefix>>
    /\ Kinds(Arrived)[1] = "throw"
    /\ Kinds(Arrived)[2] = "delta"
    /\ upserts = << <<"b">> >>
    /\ textBuffer = MalformedLine \o <<LF, DataPrefix>> \o ContentPayload(<<"b">>) \o <<CR, LF>>


-----------------------------------------------------------------------------
(* The sends of one page, whatever their outcome *)

\* the answer the handler settles on, and the other bodies a fetch may
\* resolve with: two deltas, and the sentinel alone
SendAnswers == { FinalContent([role |-> "assistant", content |-> <<"o", "k">>]) }

TwoDeltas ==
    Text(<< <<DataPrefix>> \o ContentPayload(<<"a">>),
            <<DataPrefix>> \o ContentPayload(<<"b">>) \o <<CR>> >>)

SendBodies == { TwoDeltas, Text(<<DoneLine>>) }

\* where reader.read() may cut the body: inside its first line, after it, or
\* nowhere
Cuts == {5, Len(<<DataPrefix>> \o ContentPayload(<<"a">>)) + 1, Len(wire)}

\* the statuses of the responses that start no stream
RefusedStatuses == {429, 402, 500}

NextSend ==
    \/ \E input \in Inputs : Send(input)
    \/ \E ok \in BOOLEAN : UserInserted(ok)
    \/ \E finalContent \in SendAnswers : Start(finalContent)
    \/ \E text \in SendBodies : Upstream(text)
    \/ \E status \in RefusedStatuses : Refused(status)
    \/ FetchRejected
    \/ \E n \in Cuts : Read(n)
    \/ ReadRejected
    \/ ReadDone
    \/ \E ok \in BOOLEAN : Persisted(ok)

\* the fetch settles
FetchSettles ==
    \/ \E finalContent \in SendAnswers : Start(finalContent)
    \/ \E text \in SendBodies : Upstream(text)
    \/ \E status \in RefusedStatuses : Refused(status)
    \/ FetchRejected

\* a step of send at reader.read(): a chunk, the end of the body or a
\* rejection
ReadSettles == cpc = "reading" /\ (reads' # reads \/ cpc' # cpc)

\* reader.read() settles: weak fairness of the steps at reader.read(), one of
\* which is enabled whenever send is there
ReadFairness == <>[](cpc = "reading") => []<><<ReadSettles>>_vars

\* every promise send awaits settles; the user need not send again
SpecSend ==
    /\ InitStream /\ [][NextSend]_vars
    /\ WF_vars(\E ok \in BOOLEAN : UserInserted(ok))
    /\ WF_vars(FetchSettles)
    /\ ReadFairness
    /\ WF_vars(\E ok \in BOOLEAN : Persisted(ok))


-----------------------------------------------------------------------------
(* The durable transcript *)

\* the rows written by the sends of this page
NewRows == SubSeq(chatRows, Len(History) + 1, Len(chatRows))

RowCount(role) == Cardinality({ i \in DOMAIN NewRows : NewRows[i].role = role })

\* a send is under way
InProgress == cpc \in {"insert", "fetch", "reading", "persist"}

\* the sends that have ended
SendsEnded == Sends - (IF InProgress THEN 1 ELSE 0)

RowsWellKeyed ==
    /\ \A i \in DOMAIN chatRows :
          /\ chatRows[i].role \in {"user", "assistant"}
          /\ chatRows[i].user_id = user.id
          /\ chatRows[i].conversation_id = conversationId
    /\ \A i \in DOMAIN NewRows :
          \E j \in DOMAIN chatMessages :
             /\ chatMessages[j].role = NewRows[i].role
             /\ chatMessages[j].content = NewRows[i].content
    /\ RowCount("user") <= Sends
    /\ RowCount("assistant") <= SendsEnded

\* a row is written by appending it: a user row before the fetch of its
\* send, an assistant row once the body is read to its end, holding the text
\* shown
RowWritten ==
    chatRows' # chatRows =>
        \E role \in {"user", "assistant"} :
           /\ chatRows' = Append(chatRows, ChatRow(role, Last(chatRows').content))
           /\ role = "user" =>
                 /\ cpc = "insert"
                 /\ stream = NoStream
                 /\ Last(chatRows').content = Last(chatMessages).content
           /\ role = "assistant" =>
                 /\ cpc = "persist"
                 /\ stream.closed /\ wire = <<>>
                 /\ Last(chatRows').content = assistantSoFar
                 /\ assistantSoFar # <<>>

\* C21: chat_messages only receives rows with role user or assistant, keyed
\* by the user id and the conversation id, holding messages of the visible
\* transcript; a send writes at most one assistant row, only after its stream
\* has ended, and its user row only before its fetch
C21_OnlyUserAndAssistantRows == []RowsWellKeyed /\ [][RowWritten]_vars

\* two sends have ended, the first with both of its rows and the second,
\* whose read failed, with its user row only
C21_Witness ==
    /\ cpc = "ended"
    /\ Sends = 2
    /\ Len(NewRows) = 3
    /\ NewRows[1].role = "user"
    /\ NewRows[2] = ChatRow("assistant", <<"a", "b">>)
    /\ NewRows[3].role = "user"
    /\ toasts = <<"Error">>
    /\ Last(chatMessages).role = "assistant"


-----------------------------------------------------------------------------
(* The two ways a request ends *)

\* the Response carries the complete stream: one delta with a non-empty
\* content, then the sentinel
CompleteStream ==
    /\ response.type = "text/event-stream"
    /\ response.status = 200
    /\ Len(response.body) = 2
    /\ response.body[1].data = "delta"
    /\ response.body[1].content # <<>>
    /\ response.body[2].data = "[DONE]"

\* the Response is a JSON body with the one field error and a failure status
ErrorBody ==
    /\ response.type = "application/json"
    /\ DOMAIN response.body = {"error"}
    /\ response.status \in {400, 429, 402, 500}
    /\ response.status \notin 200..299

C22_WitnessRefused ==
    /\ pc = "done"
    /\ ErrorBody
    /\ response.status = 400


-----------------------------------------------------------------------------
(* Lookups that find nothing, and the one task a lookup acts on *)

\* x occurs in s, letter case aside
Contains(s, x) ==
    \E i \in 0..(Len(s) - Len(x)) :
       \A k \in 1..Len(x) : Lower(s[i + k]) = Lower(x[k])

\* the caller's tasks whose title holds the looked-up text
SubstringMatches ==
    { t \in last.before : t.user_id = last.userId /\ Contains(t.title, LookupPattern) }

\* the rows of the table that the last invocation removed or rewrote
Gone == { t \in last.before : t \notin todos }

Came == { t \in todos : t \notin last.before }

NoMatchIsInert(matches) ==
    ByLookup =>
       /\ matches = {} =>
             /\ last.result = NoTaskFound(LookupPattern)
             /\ last.result[1] # "Error: "
             /\ todos = last.before
       /\ (matches # {} /\ last.name = "delete_todo") =>
             /\ Cardinality(Gone) = 1
             /\ Gone \subseteq matches
             /\ Came = {}
       /\ (matches # {} /\ last.name = "update_todo") =>
             /\ Cardinality(Gone) = 1
             /\ Gone \subseteq matches
             /\ \E t \in Gone, u \in Came :
                   /\ Came = {u}
                   /\ u = [t EXCEPT !.title = last.args.new_title,
                                    !.updated_at = u.updated_at]

\* C23: toggle, non-sentinel delete and update whose title is contained in no
\* title of the caller's tasks return No task found matching "<title>" and
\* leave the table unchanged; when some title contains it, delete removes
\* exactly one task and update retitles exactly one task, all other tasks
\* unchanged
C23_NoMatchLeavesStore == NoMatchIsInert(SubstringMatches)

\* the same with the match the store computes, where _ and % in the title
\* stand for any character and any text
C23_NoILikeMatchLeavesStore == NoMatchIsInert(Found)


-----------------------------------------------------------------------------
(* The visible transcript during a send *)

\* the place of the user message of the send last started
LastUser ==
    CHOOSE i \in DOMAIN chatMessages :
       /\ chatMessages[i].role = "user"
       /\ \A j \in DOMAIN chatMessages : chatMessages[j].role = "user" => j <= i

\* what the send last started has added after its user message: nothing
\* before its first non-empty delta, then one assistant message holding all
\* deltas so far
OneAnswerPerSend ==
    Sends >= 1 =>
       /\ \A k \in DOMAIN upserts : upserts[k] # <<>>
       /\ assistantSoFar = Flatten(upserts)
       /\ IF upserts = <<>>
          THEN Len(chatMessages) = LastUser
          ELSE /\ Len(chatMessages) = LastUser + 1
               /\ Last(chatMessages) = [role |-> "assistant", content |-> Flatten(upserts)]

\* the transcript changes by taking the user message of a new send, by taking
\* the assistant message at the first delta of a read, or by the growth of
\* that message at its end
TranscriptGrows ==
    chatMessages' # chatMessages =>
       \/ /\ ~isLoading /\ isLoading'
          /\ \E input \in Inputs :
                chatMessages' = Append(chatMessages, [role |-> "user", content |-> input])
       \/ /\ cpc = "reading"
          /\ Last(chatMessages).role = "user"
          /\ assistantSoFar = <<>>
          /\ chatMessages' =
                Append(chatMessages, [role |-> "assistant", content |-> assistantSoFar'])
       \/ /\ cpc = "reading"
          /\ Last(chatMessages).role = "assistant"
          /\ Len(chatMessages') = Len(chatMessages)
          /\ \A i \in 1..(Len(chatMessages) - 1) : chatMessages'[i] = chatMessages[i]
          /\ Last(chatMessages').role = "assistant"
          /\ Last(chatMessages').content = assistantSoFar'
          /\ IsPrefix(Last(chatMessages).content, Last(chatMessages').content)
          /\ Len(Last(chatMessages').content) > Len(Last(chatMessages).content)

\* C24: during one send the visible transcript gains the user message and at
\* most one assistant message; the first non-empty delta creates it after the
\* user message, each later delta sets its content to all deltas so far, so
\* the content only grows at its end and no earlier message changes
C24_OneGrowingAnswer == []OneAnswerPerSend /\ [][TranscriptGrows]_vars

\* the second send of a page has shown two deltas, the second after a read of
\* its own, behind the exchange of the first send
C24_Witness ==
    /\ Sends = 2
    /\ upserts = << <<"a">>, <<"b">> >>
    /\ Len(reads) = 2
    /\ Len(chatMessages) = Len(History) + 4
    /\ chatMessages[Len(History) + 2] = [role |-> "assistant", content |-> <<"o", "k">>]
    /\ Last(chatMessages) = [role |-> "assistant", content |-> <<"a", "b">>]


-----------------------------------------------------------------------------
(* Reads that fail part-way, and responses that start no stream *)

\* the text the deltas of the whole body carry
SentText == Flatten(ContentsOf(Flatten(stream.chunks)))

\* what is shown of the answer is the head of what the body carries
ShownIsPrefix ==
    stream # NoStream =>
       /\ IsPrefix(assistantSoFar, SentText)
       /\ assistantSoFar # <<>> =>
             Last(chatMessages) = [role |-> "assistant", content |-> assistantSoFar]

\* a notice is shown as the send ends, with nothing appended, stored or
\* refreshed; the notices of 429 and 402 come before any body is read
NoticeInstead ==
    toasts' # toasts =>
       /\ \E title \in {"Rate limited", "Usage limit", "Error"} :
             /\ toasts' = Append(toasts, title)
             /\ title # "Error" =>
                   /\ cpc = "fetch"
                   /\ Last(chatMessages).role = "user"
       /\ chatMessages' = chatMessages
       /\ assistantSoFar' = assistantSoFar
       /\ chatRows' = chatRows
       /\ todoRefresh' = todoRefresh
       /\ cpc' = "ended"

\* once a send has ended the transcript stays until the next send
KeptAfterEnd ==
    (cpc = "ended" /\ cpc' = "ended") => chatMessages' = chatMessages

\* C25: when a read fails part-way the text already shown is kept, so what is
\* shown is always the head of what the body carries; then, and on a 429 or
\* 402 response, nothing further is appended and a notice is shown
C25_PartialTextKept ==
    []ShownIsPrefix /\ [][NoticeInstead /\ KeptAfterEnd]_vars

\* a read failed after the first of two deltas was shown: the notice, the
\* text kept, the rest of the body never read, no row for the answer
C25_Witness ==
    /\ cpc = "ended"
    /\ toasts # <<>> /\ Last(toasts) = "Error"
    /\ wire # <<>>
    /\ SentText = <<"a", "b">>
    /\ Last(chatMessages) = [role |-> "assistant", content |-> <<"a">>]
    /\ Last(chatRows).role = "user"
    /\ ~isLoading


-----------------------------------------------------------------------------
(* Two toggles of one user's tasks under way at once *)

\* each toggle is the toggle_todo case of a request, or toggleTodo of the
\* task panel
Racers == {1, 2}
RacerKinds == {"request", "panel"}

\* a toggle that has not begun; title is the argument of a request's tool call
Racer(kind, title) == [kind |-> kind, at |-> "idle", title |-> title, seen |-> {}, id |-> 0]

\* the tables the toggles start on
RaceStores ==
    { { Task(1, "u1", <<"a">>, FALSE, Null) },
      { Task(1, "u1", <<"a">>, TRUE, Null),
        Task(2, "u1", <<"A","b">>, FALSE, Null) },
      { Task(1, "u1", <<"a">>, FALSE, Null),
        Task(2, "u1", <<"A","b">>, TRUE, "2026-02-15T09:00:00Z"),
        Task(3, "u2", <<"a">>, TRUE, Null) } }

InitRace ==
    /\ todos \in RaceStores
    /\ InitRest
    /\ stream = NoStream
    /\ wire = <<>>
    /\ reads = <<>>
    /\ cpc = "idle"
    /\ textBuffer = <<>>
    /\ assistantSoFar = <<>>
    /\ chatMessages = <<>>
    /\ todoRefresh = 0
    /\ upserts = <<>>
    /\ isLoading = FALSE
    /\ chatRows = <<>>
    /\ toasts = <<>>
    /\ \E kinds \in [Racers -> RacerKinds], titles \in [Racers -> Patterns] :
          race = [start |-> todos,
                  procs |-> [p \in Racers |->
                               Racer(kinds[p], IF kinds[p] = "request" THEN titles[p]
                                               ELSE <<>>)]]

RaceFrame ==
    /\ UNCHANGED <<pc, userId, conversationMessages, assistantMessage, iterations,
                   callIdx, sent, received, executed, response, faults, rich, last>>
    /\ UNCHANGED sendVars

\* toggle_todo of a request: the lookup resolves
ToggleSelect(p) ==
    /\ race.procs[p].kind = "request"
    /\ race.procs[p].at = "idle"
    /\ LET matches == Matches(todos, user.id, race.procs[p].title)
       IN  IF matches = {}
           THEN race' = [race EXCEPT !.procs[p].at = "done"]
           ELSE \E todo \in matches :
                   race' = [race EXCEPT !.procs[p].at = "selected",
                                        !.procs[p].seen = {todo},
                                        !.procs[p].id = todo.id]
    /\ UNCHANGED <<todos, clock>>
    /\ RaceFrame

\* toggle_todo of a request: the update of the row that was found, to the
\* opposite of the flag that was read
ToggleUpdate(p) ==
    /\ race.procs[p].kind = "request"
    /\ race.procs[p].at = "selected"
    /\ \E todo \in race.procs[p].seen :
          todos' = UpdateCompleted(todos, clock, todo.id, ~todo.completed)
    /\ clock' = clock + 1
    /\ race' = [race EXCEPT !.procs[p].at = "done"]
    /\ RaceFrame

\* fetchTodos of the panel resolves: the rows it shows
FetchTodos(p) ==
    /\ race.procs[p].kind = "panel"
    /\ race.procs[p].at = "idle"
    /\ race' = [race EXCEPT !.procs[p].at = "selected",
                            !.procs[p].seen = { t \in todos : t.user_id = user.id }]
    /\ UNCHANGED <<todos, clock>>
    /\ RaceFrame

\* toggleTodo(id, completed) of the panel for a row it shows: the update to
\* the opposite of the flag shown
toggleTodo(p) ==
    /\ race.procs[p].kind = "panel"
    /\ race.procs[p].at = "selected"
    /\ \E t \in race.procs[p].seen :
          /\ todos' = UpdateCompleted(todos, clock, t.id, ~t.completed)
          /\ race' = [race EXCEPT !.procs[p].at = "done", !.procs[p].id = t.id]
    /\ clock' = clock + 1
    /\ RaceFrame

NextRace ==
    \E p \in Racers : \/ ToggleSelect(p)
                      \/ ToggleUpdate(p)
                      \/ FetchTodos(p)
                      \/ toggleTodo(p)

SpecRace == InitRace /\ [][NextRace]_vars

\* both toggles are done and both wrote the flag of the same task
BothToggled(id) ==
    /\ \A p \in Racers : race.procs[p].at = "done" /\ race.procs[p].id = id
    /\ id # 0

FlagIn(rows, id) == { t.completed : t \in { r \in rows : r.id = id } }

\* one toggle read the row after the other had written it
OneAfterTheOther(id) ==
    \E p \in Racers :
       \E t \in race.procs[p].seen :
          t.id = id /\ t \notin race.start

\* C26 (as claimed): when two toggles of the same task run at once, two
\* requests or a request and the panel, no flip is lost: after both are done
\* the task's completed flag is what it was before them
C26_NoLostFlip ==
    \A id \in 1..3 : BothToggled(id) => FlagIn(todos, id) = FlagIn(race.start, id)

\* the same of two toggles where one read the row the other had written
C26_SerialTogglesRestore ==
    \A id \in 1..3 :
       (BothToggled(id) /\ OneAfterTheOther(id)) =>
           FlagIn(todos, id) = FlagIn(race.start, id)


-----------------------------------------------------------------------------
(* Leaving the loading state *)

\* isLoading is true exactly while a send is under way
LoadingWhileSending == isLoading <=> InProgress

\* a send is started from the input only with isLoading false, after the
\* send before it has ended
StartedWhenEnabled ==
    (Len(chatMessages') > Len(chatMessages) /\ Last(chatMessages').role = "user") =>
        /\ ~isLoading
        /\ cpc \in {"idle", "ended"}
        /\ isLoading'

\* C27: every send leaves the loading state, whatever its outcome: success,
\* 429, 402, another failure status, a rejected fetch or read, an insert of
\* the user or assistant message that fails; isLoading returns to false, and
\* while it is true no second send is started from the input
C27_LoadingEnds ==
    /\ isLoading ~> ~isLoading
    /\ []LoadingWhileSending
    /\ [][StartedWhenEnabled]_vars

\* a second send has ended after a first one that was rate limited, one of
\* them with its user message not stored, the other with a failed read
C27_Witness ==
    /\ Sends = 2
    /\ cpc = "ended"
    /\ ~isLoading
    /\ toasts = <<"Rate limited", "Error">>
    /\ RowCount("user") = 1
    /\ stream # NoStream

=============================================================================
